---------------------------- MODULE Spec2Model ----------------------------
(***************************************************************************)
(* A model of the serve-index middleware (src/index.js): one request       *)
(* travelling through serve(), the stat / readdir callbacks, the           *)
(* text/html, text/plain and application/json handlers, statFiles (a       *)
(* Batch of per-entry stats with concurrency 10) and send().               *)
(*                                                                         *)
(* Strings are sequences of one-character strings, so that the code's      *)
(* string operations (percent-decoding, path normalisation, the substr     *)
(* prefix test, the code-unit sort, lower-casing) are computed and not     *)
(* assumed.  "NUL" stands for the character U+0000.                        *)
(***************************************************************************)
EXTENDS Integers, Sequences, FiniteSets, TLC

(***************************************************************************)
(* Bounds of the model.                                                    *)
(***************************************************************************)
\* the largest number of leading "../" segments of a request path
MaxUp == 2
\* the number of entries of the large directory /w/big
MaxFiles == 10

(***************************************************************************)
(* Characters.                                                             *)
(***************************************************************************)
LowerLetters ==
    << "a", "b", "c", "d", "e", "f", "g", "h", "i", "j", "k", "l", "m",
       "n", "o", "p", "q", "r", "s", "t", "u", "v", "w", "x", "y", "z" >>

UpperLetters ==
    << "A", "B", "C", "D", "E", "F", "G", "H", "I", "J", "K", "L", "M",
       "N", "O", "P", "Q", "R", "S", "T", "U", "V", "W", "X", "Y", "Z" >>

Digits == << "0", "1", "2", "3", "4", "5", "6", "7", "8", "9" >>

Range(s) == { s[i] : i \in 1..Len(s) }

IndexOf(s, c) == CHOOSE i \in 1..Len(s) : s[i] = c

\* the UTF-16 code unit of a character (what String.prototype sort compares)
CodeUnit(c) ==
    IF c \in Range(UpperLetters) THEN 64 + IndexOf(UpperLetters, c)
    ELSE IF c \in Range(LowerLetters) THEN 96 + IndexOf(LowerLetters, c)
    ELSE IF c \in Range(Digits) THEN 47 + IndexOf(Digits, c)
    ELSE CASE c = "NUL" -> 0
           [] c = "\n"  -> 10
           [] c = "\""  -> 34
           [] c = "%"   -> 37
           [] c = ","   -> 44
           [] c = "."   -> 46
           [] c = "/"   -> 47
           [] c = "["   -> 91
           [] c = "\\"  -> 92
           [] c = "]"   -> 93

\* the characters a percent escape of the modelled requests can denote
Alphabet ==
    Range(UpperLetters) \cup Range(LowerLetters) \cup Range(Digits)
        \cup { "NUL", "%", ".", "/" }

Max(a, b) == IF a >= b THEN a ELSE b

Min(a, b) == IF a <= b THEN a ELSE b

(***************************************************************************)
(* String helpers of the JavaScript runtime.                               *)
(***************************************************************************)
\* String.prototype.substr(0, n)
Substr0(s, n) == SubSeq(s, 1, Min(n, Len(s)))

\* Array.prototype.join
RECURSIVE JoinWith(_, _)
JoinWith(parts, sep) ==
    IF parts = << >> THEN << >>
    ELSE IF Len(parts) = 1 THEN parts[1]
    ELSE parts[1] \o sep \o JoinWith(Tail(parts), sep)

\* String.prototype.split on a one-character separator
RECURSIVE SplitOn(_, _)
SplitOn(s, sep) ==
    IF \A i \in 1..Len(s) : s[i] # sep THEN << s >>
    ELSE LET k == CHOOSE i \in 1..Len(s) :
                    s[i] = sep /\ \A j \in 1..(i - 1) : s[j] # sep
         IN  << SubSeq(s, 1, k - 1) >> \o SplitOn(SubSeq(s, k + 1, Len(s)), sep)

\* the value of a hexadecimal digit, -1 when the character is none
HexVal(c) ==
    IF c \in Range(Digits) THEN IndexOf(Digits, c) - 1
    ELSE IF c \in Range(SubSeq(LowerLetters, 1, 6)) THEN 9 + IndexOf(LowerLetters, c)
    ELSE IF c \in Range(SubSeq(UpperLetters, 1, 6)) THEN 9 + IndexOf(UpperLetters, c)
    ELSE -1

\* decodeURIComponent: [ok |-> TRUE, str |-> decoded], or [ok |-> FALSE] when
\* it throws URIError (a "%" not followed by two hexadecimal digits, or an
\* escape that is no character of the modelled alphabet, as a lone byte
\* above 0x7f is)
RECURSIVE decodeURIComponent(_)
decodeURIComponent(s) ==
    IF s = << >> THEN [ok |-> TRUE, str |-> << >>]
    ELSE IF s[1] # "%"
    THEN LET rest == decodeURIComponent(Tail(s))
         IN  IF rest.ok THEN [ok |-> TRUE, str |-> << s[1] >> \o rest.str]
             ELSE [ok |-> FALSE, str |-> << >>]
    ELSE IF Len(s) < 3 \/ HexVal(s[2]) < 0 \/ HexVal(s[3]) < 0
    THEN [ok |-> FALSE, str |-> << >>]
    ELSE LET code == 16 * HexVal(s[2]) + HexVal(s[3])
             rest == decodeURIComponent(SubSeq(s, 4, Len(s)))
         IN  IF rest.ok /\ \E c \in Alphabet : CodeUnit(c) = code
             THEN [ok  |-> TRUE,
                   str |-> << CHOOSE c \in Alphabet : CodeUnit(c) = code >>
                               \o rest.str]
             ELSE [ok |-> FALSE, str |-> << >>]

(***************************************************************************)
(* pathLib: the posix flavour of Node's path module, on absolute paths.    *)
(***************************************************************************)
sep == << "/" >>

\* path.posix's normalizeString with allowAboveRoot = false: drops "" and
\* "." segments, and lets ".." remove the segment before it (none at the top)
RECURSIVE normalizeSegments(_, _)
normalizeSegments(segs, acc) ==
    IF segs = << >> THEN acc
    ELSE LET seg == Head(segs) IN
         IF seg = << >> \/ seg = << "." >>
         THEN normalizeSegments(Tail(segs), acc)
         ELSE IF seg = << ".", "." >>
         THEN normalizeSegments(Tail(segs),
                                IF acc = << >> THEN acc
                                ELSE SubSeq(acc, 1, Len(acc) - 1))
         ELSE normalizeSegments(Tail(segs), Append(acc, seg))

\* path.posix.normalize of an absolute path: a trailing separator is kept
normalize(p) ==
    LET segs == normalizeSegments(SplitOn(p, "/"), << >>)
        trailingSeparator == p # << >> /\ p[Len(p)] = "/"
    IN  IF segs = << >> THEN sep
        ELSE sep \o JoinWith(segs, sep)
                 \o (IF trailingSeparator THEN sep ELSE << >>)

\* path.posix.resolve of one absolute path: normalised, no trailing separator
resolve(p) ==
    sep \o JoinWith(normalizeSegments(SplitOn(p, "/"), << >>), sep)

\* path.posix.join of two non-empty paths
join(a, b) == normalize(a \o sep \o b)


(***************************************************************************)
(* Orders and sorting.                                                     *)
(***************************************************************************)
\* a < b for strings as Array.prototype.sort() compares them without a
\* comparator: by UTF-16 code units, a proper prefix first
RECURSIVE CodeUnitLess(_, _)
CodeUnitLess(a, b) ==
    IF b = << >> THEN FALSE
    ELSE IF a = << >> THEN TRUE
    ELSE IF a[1] # b[1] THEN CodeUnit(a[1]) < CodeUnit(b[1])
    ELSE CodeUnitLess(Tail(a), Tail(b))

\* String.prototype.toLocaleLowerCase
toLocaleLowerCase(s) ==
    [i \in 1..Len(s) |->
        IF s[i] \in Range(UpperLetters)
        THEN LowerLetters[IndexOf(UpperLetters, s[i])]
        ELSE s[i]]

\* String.prototype.localeCompare as -1, 0 or 1.  On lower-cased names made
\* of ".", digits and letters the collation order is the code-unit order.
localeCompare(a, b) ==
    IF a = b THEN 0 ELSE IF CodeUnitLess(a, b) THEN -1 ELSE 1

\* the default comparator of files.sort()
DefaultCompare(a, b) ==
    IF a = b THEN 0 ELSE IF CodeUnitLess(a, b) THEN -1 ELSE 1

\* Array.prototype.sort is a stable sort: each element is inserted after the
\* elements it does not sort before.  Here with the default comparator.
RECURSIVE InsertName(_, _)
InsertName(sorted, x) ==
    IF sorted = << >> THEN << x >>
    ELSE IF DefaultCompare(x, Head(sorted)) < 0 THEN << x >> \o sorted
    ELSE << Head(sorted) >> \o InsertName(Tail(sorted), x)

RECURSIVE SortNames(_)
SortNames(names) ==
    IF names = << >> THEN << >>
    ELSE InsertName(SortNames(SubSeq(names, 1, Len(names) - 1)), names[Len(names)])

\* files.sort() of serve, without the sort
SortFilesOmitted(files) == files

\* files.sort() of serve
SortFiles(files) == SortNames(files)

\* Array.prototype.filter: the elements of xs, in order, whose index is in keep
RECURSIVE FilterIdx(_, _, _)
FilterIdx(xs, keep, i) ==
    IF i > Len(xs) THEN << >>
    ELSE (IF i \in keep THEN << xs[i] >> ELSE << >>) \o FilterIdx(xs, keep, i + 1)

(***************************************************************************)
(* Metadata.                                                               *)
(***************************************************************************)
DotDot == << ".", "." >>

\* what the filesystem answers to the stat of one entry
Kinds == { "dir", "file", "ENOENT", "EACCES" }

\* the null stat of statFiles
NullStat == [isNull |-> TRUE, isDir |-> FALSE, ino |-> << >>]

\* fs.Stats of the entry `name`: ino identifies the entry it describes
Stats(name, kind) == [isNull |-> FALSE, isDir |-> kind = "dir", ino |-> name]

\* an array slot never assigned
Undefined == [isNull |-> TRUE, isDir |-> FALSE, ino |-> << "undefined" >>]

\* b.stat && b.stat.isDirectory()
IsDirectory(stat) == ~stat.isNull /\ stat.isDir

\* fileSort with the directory test of a and b exchanged
fileSortDirsLast(a, b) ==
    IF a.name = DotDot \/ b.name = DotDot
    THEN IF a.name = b.name THEN 0
         ELSE IF a.name = DotDot THEN -1 ELSE 1
    ELSE LET byDir == (IF IsDirectory(a.stat) THEN 1 ELSE 0)
                        - (IF IsDirectory(b.stat) THEN 1 ELSE 0)
         IN  IF byDir # 0 THEN byDir
             ELSE localeCompare(toLocaleLowerCase(a.name), toLocaleLowerCase(b.name))

\* ServeIndex.prototype.fileSort
fileSort(a, b) ==
    IF a.name = DotDot \/ b.name = DotDot
    THEN IF a.name = b.name THEN 0
         ELSE IF a.name = DotDot THEN -1 ELSE 1
    ELSE LET byDir == (IF IsDirectory(b.stat) THEN 1 ELSE 0)
                        - (IF IsDirectory(a.stat) THEN 1 ELSE 0)
         IN  IF byDir # 0 THEN byDir
             ELSE localeCompare(toLocaleLowerCase(a.name), toLocaleLowerCase(b.name))

\* fileList.sort(_self.fileSort): the stable sort by the comparator fileSort
RECURSIVE InsertEntry(_, _)
InsertEntry(sorted, x) ==
    IF sorted = << >> THEN << x >>
    ELSE IF fileSort(x, Head(sorted)) < 0 THEN << x >> \o sorted
    ELSE << Head(sorted) >> \o InsertEntry(Tail(sorted), x)

RECURSIVE SortFileList(_)
SortFileList(fileList) ==
    IF fileList = << >> THEN << >>
    ELSE InsertEntry(SortFileList(SubSeq(fileList, 1, Len(fileList) - 1)),
                     fileList[Len(fileList)])

\* removeHidden that removes nothing
removeHiddenKeepsAll(files) == files

\* ServeIndex.prototype.removeHidden
removeHidden(files) ==
    FilterIdx(files, { i \in 1..Len(files) : files[i][1] # "." }, 1)

\* the configured filter predicates of the model: none, one that rejects the
\* name ".s", one that rejects the first candidate (index 0)
Filters == { "none", "noSecret", "skipFirst" }

\* opts.filter(filename, index, list, path), index counted from 1
FilterAccepts(f, filename, index, list, path) ==
    CASE f = "noSecret"  -> filename # << ".", "s" >>
      [] f = "skipFirst" -> index # 1
      [] OTHER           -> TRUE

\* files.filter(function (filename, index, list) { return _self.filter(...) })
ApplyFilter(f, files, path) ==
    FilterIdx(files,
              { i \in 1..Len(files) : FilterAccepts(f, files[i], i, files, path) }, 1)

(***************************************************************************)
(* Content negotiation and bodies.                                         *)
(***************************************************************************)
mediaTypes == << "text/html", "text/plain", "application/json" >>

\* accepts(req).type(mediaTypes): the Accept header is the list of the
\* client's media ranges in preference order; no header accepts anything,
\* and the first of mediaTypes wins.  "" is the code's `false`.
AcceptType(accept) ==
    IF accept = << >> THEN mediaTypes[1]
    ELSE IF \A i \in 1..Len(accept) : accept[i] \notin (Range(mediaTypes) \cup { "*/*" })
    THEN ""
    ELSE LET k == CHOOSE i \in 1..Len(accept) :
                      /\ accept[i] \in (Range(mediaTypes) \cup { "*/*" })
                      /\ \A j \in 1..(i - 1) :
                            accept[j] \notin (Range(mediaTypes) \cup { "*/*" })
         IN  IF accept[k] = "*/*" THEN mediaTypes[1] ELSE accept[k]

RECURSIVE Flatten(_)
Flatten(ss) == IF ss = << >> THEN << >> ELSE Head(ss) \o Flatten(Tail(ss))

\* JSON.stringify of one string
JsonString(s) ==
    << "\"" >>
      \o Flatten([i \in 1..Len(s) |->
                    IF s[i] \in { "\"", "\\" } THEN << "\\", s[i] >> ELSE << s[i] >>])
      \o << "\"" >>

\* JSON.stringify(files)
JsonStringify(files) ==
    << "[" >> \o JoinWith([i \in 1..Len(files) |-> JsonString(files[i])], << "," >>)
              \o << "]" >>

\* files.join('\n') + '\n'
PlainBody(files) == JoinWith(files, << "\n" >>) \o << "\n" >>

\* escape-html of one string
escapeHtml(s) ==
    Flatten([i \in 1..Len(s) |->
               CASE s[i] = "\"" -> << "&", "q", "u", "o", "t", ";" >>
                 [] s[i] = "&"  -> << "&", "a", "m", "p", ";" >>
                 [] s[i] = "'"  -> << "&", "#", "3", "9", ";" >>
                 [] s[i] = "<"  -> << "&", "l", "t", ";" >>
                 [] s[i] = ">"  -> << "&", "g", "t", ";" >>
                 [] OTHER       -> << s[i] >>])

\* createHtmlFileList, reduced to the items' order and title: one
\* <li>name</li> per entry of the sorted file list
createHtmlFileList(fileList) ==
    << "<", "u", "l", ">" >>
      \o Flatten([i \in 1..Len(fileList) |->
                    << "<", "l", "i", ">" >> \o escapeHtml(fileList[i].name)
                        \o << "<", "/", "l", "i", ">" >>])
      \o << "<", "/", "u", "l", ">" >>

(***************************************************************************)
(* The state.                                                              *)
(***************************************************************************)
VARIABLES
    root,       \* the root argument of serveIndex(root, options)
    rootPath,   \* this.rootPath
    hidden,     \* this.hidden
    filter,     \* this.filter
    req,        \* the request: method, url (pathname) and Accept header
    pc,         \* where the request is: "request" (not yet served), "stat",
                \* "readdir", "statFiles", "stylesheet", "template" (the
                \* callback awaited), "done", or "thrown" (serve threw)
    path,       \* serve's `path`
    showUp,     \* serve's `showUp`
    pathStat,   \* what filesystem.stat(path) reported, "" before it did
    listed,     \* what filesystem.readdir(path) returned, in its order
    fsKind,     \* what the filesystem answers to the stat of each entry
    files,      \* the `files` array handed to the handler (html: with "..")
    index,      \* Batch: the jobs taken from the queue so far
    pending,    \* Batch: the jobs not yet completed
    results,    \* Batch: the results array
    batchDone,  \* Batch: the `done` flag, set when a job failed
    inflight,   \* the per-entry stats issued and not yet called back
    stats,      \* the array statFiles handed to the html handler's callback
    fileList,   \* html's sorted fileList (locals.fileList)
    res,        \* the response
    nextLog,    \* the arguments of the calls of next(), in order
    fsOps       \* how many filesystem operations were issued, by kind

vars == << root, rootPath, hidden, filter, req, pc, path, showUp, pathStat,
           listed, fsKind, files, index, pending, results, batchDone,
           inflight, stats, fileList, res, nextLog, fsOps >>

configVars == << root, rootPath, hidden, filter, req >>

batchVars == << index, pending, results, batchDone, inflight >>

(***************************************************************************)
(* Requests, configurations and the filesystem the model draws from.       *)
(***************************************************************************)
Methods == { "GET", "HEAD", "OPTIONS", "DELETE" }

Roots == { << "/", "w" >>, << "/" >> }

\* k leading "../" segments
RECURSIVE Ups(_)
Ups(k) == IF k = 0 THEN << >> ELSE << ".", ".", "/" >> \o Ups(k - 1)

\* what follows the leading "../" segments of a request path
Tails ==
    { << >>,
      << "p" >>,
      << "p", "/" >>,
      << ".", "/", "p", "/", "/" >>,
      << "p", "/", ".", ".", "/", ".", "." >>,
      << "w" >>,
      << "w", "/", "p" >>,
      << "w", "2" >>,
      << "w", "2", "/" >>,
      << "%", "2", "e", "%", "2", "E", "/", "w", "2" >>,
      << "p", "/", "%", "2", "e", "%", "2", "e", "%", "2", "f", ".", ".", "/", "w", "2" >>,
      << "p", "%", "0", "0" >>,
      << "%", "0", "0", "/", ".", ".", "/", ".", ".", "/", "w", "2" >>,
      << "%" >>,
      << "p", "%", "w", "2" >>,
      << "%", "f", "f" >> }

PathUrls == { sep \o Ups(k) \o t : k \in 0..MaxUp, t \in Tails }

ListingUrls == { << "/" >>, << "/", "d", "/" >> }

BigUrl == << "/", "b", "i", "g", "/" >>

Accepts ==
    { << "text/html" >>, << "text/plain" >>, << "application/json" >>,
      << "image/png" >>, << "image/png", "application/json", "text/html" >> }

\* what filesystem.stat(path) can report
PathStats == { "ENOENT", "ENAMETOOLONG", "EACCES", "file", "dir" }

SmallNames == { << ".", "s" >>, << "B" >>, << "a" >> }

\* the sequences without repetition of the elements of S
Perms(S) ==
    { f \in [1..Cardinality(S) -> S] :
        \A i, j \in 1..Cardinality(S) : i # j => f[i] # f[j] }

\* a small directory: any of SmallNames, enumerated in any order
RichListings == UNION { Perms(T) : T \in SUBSET SmallNames }

\* the large directory: f + a letter, MaxFiles entries
BigListing == [i \in 1..MaxFiles |-> << "f", LowerLetters[i] >>]

LastSegment(p) ==
    LET segs == normalizeSegments(SplitOn(p, "/"), << >>)
    IN  IF segs = << >> THEN << >> ELSE segs[Len(segs)]

\* what filesystem.readdir(p) can return: the directories named d are small
\* ones, those named big are large, those named p are empty
Listings(p) ==
    CASE LastSegment(p) = << "d" >>           -> RichListings
      [] LastSegment(p) = << "b", "i", "g" >> -> { BigListing }
      [] LastSegment(p) = << "p" >>           -> { << >> }
      [] OTHER -> { << >>, << << ".", "s" >>, << "a" >>, << "B" >> >> }

\* what the stats of the entries of listing can report: anything in a small
\* directory; in the large one every entry is a file but at most one, the
\* first or the last
EntryKinds(p, listing) ==
    LET names == Range(listing) \cup { DotDot }
        plain == [n \in names |-> IF n = DotDot THEN "dir" ELSE "file"]
    IN  CASE LastSegment(p) = << "d" >> ->
               { k \in [names -> Kinds] : k[DotDot] = "dir" }
          [] LastSegment(p) = << "b", "i", "g" >> ->
               { plain }
                 \cup { [plain EXCEPT ![listing[i]] = k] :
                          i \in { 1, Len(listing) }, k \in Kinds }
          [] OTHER ->
               { k \in [names -> { "dir", "file" }] : k[DotDot] = "dir" }

(***************************************************************************)
(* Values.                                                                 *)
(***************************************************************************)
\* a fresh http.ServerResponse: default status, no header, nothing written
InitRes ==
    [statusCode |-> 200, Allow |-> "", ContentType |-> "", ContentLength |-> -1,
     XContentTypeOptions |-> "", body |-> << >>, ended |-> 0]

\* next() without an argument
NoError == [code |-> "", status |-> 0, file |-> << >>]

\* createError(status)
createError(status) == [code |-> "HttpError", status |-> status, file |-> << >>]

\* the error of a failed filesystem call on `file`; err.status as serve sets it
FsError(code, status, file) == [code |-> code, status |-> status, file |-> file]

NoOps == [stat |-> 0, readdir |-> 0, entryStat |-> 0, readFile |-> 0]

\* this.rootPath = normalize(resolve(root) + sep)
RootPathOf(r) == normalize(resolve(r) \o sep)


(***************************************************************************)
(* Init: the middleware is constructed and one request has arrived.  Three *)
(* families of runs: every method and request path against the two roots;  *)
(* every option and Accept header against the small directories; the large *)
(* directory.                                                              *)
(***************************************************************************)
InitPaths ==
    /\ root \in Roots
    /\ hidden = FALSE
    /\ filter = "none"
    /\ req \in [method : Methods, url : PathUrls, accept : { << >> }]

InitListings ==
    /\ root = << "/", "w" >>
    /\ hidden \in BOOLEAN
    /\ filter \in Filters
    /\ req \in [method : { "GET" }, url : ListingUrls, accept : Accepts]

InitBig ==
    /\ root = << "/", "w" >>
    /\ hidden = FALSE
    /\ filter = "none"
    /\ req \in [method : { "GET" }, url : { BigUrl },
                accept : { << "text/html" >> }]

Init ==
    /\ InitPaths \/ InitListings \/ InitBig
    /\ rootPath = RootPathOf(root)
    /\ pc = "request"
    /\ path = << >>
    /\ showUp = FALSE
    /\ pathStat = ""
    /\ listed = << >>
    /\ fsKind = << >>
    /\ files = << >>
    /\ index = 0
    /\ pending = 0
    /\ results = << >>
    /\ batchDone = FALSE
    /\ inflight = {}
    /\ stats = << >>
    /\ fileList = << >>
    /\ res = InitRes
    /\ nextLog = << >>
    /\ fsOps = NoOps

(***************************************************************************)
(* serve                                                                   *)
(***************************************************************************)
\* the status without the OPTIONS case
MethodStatusAlways405(method) == 405

\* res.statusCode = 'OPTIONS' === req.method ? 200 : 405
MethodStatus(method) == IF method = "OPTIONS" THEN 200 ELSE 405

\* the malicious-path test against the root without its trailing separator
IsMaliciousNoSeparator(p) ==
    Substr0(p, Len(rootPath) - 1) # SubSeq(rootPath, 1, Len(rootPath) - 1)

\* the malicious-path test:
\* (path + sep).substr(0, rootPath.length) !== rootPath
IsMalicious(p) == Substr0(p \o sep, Len(rootPath)) # rootPath

\* ServeIndex.prototype.send, on the response r.  Content-Type is kept
\* without its "; charset=utf-8" suffix, Content-Length counts the body's
\* characters (one byte each in the modelled alphabet).
send(r, type, body) ==
    [r EXCEPT !.XContentTypeOptions = "nosniff",
              !.ContentType = type,
              !.ContentLength = Len(body),
              !.body = body,
              !.ended = r.ended + 1]

\* serve(req, res, next) up to the call of filesystem.stat.  parseUrl and
\* parseUrl.original give the same pathname (the middleware is not mounted
\* under a prefix), so both decodeURIComponent calls succeed or throw alike.
Serve ==
    /\ pc = "request"
    /\ IF req.method \notin { "GET", "HEAD" }
       THEN /\ res' = [res EXCEPT !.statusCode = MethodStatus(req.method),
                                  !.Allow = "GET, HEAD, OPTIONS",
                                  !.ContentLength = 0,
                                  !.ended = res.ended + 1]
            /\ pc' = "done"
            /\ UNCHANGED << path, showUp, nextLog, fsOps >>
       ELSE LET dir == decodeURIComponent(req.url) IN
            IF ~dir.ok
            THEN /\ pc' = "thrown"
                 /\ UNCHANGED << path, showUp, res, nextLog, fsOps >>
            ELSE LET p == normalize(join(rootPath, dir.str)) IN
                 /\ path' = p
                 /\ IF "NUL" \in Range(p)
                    THEN /\ nextLog' = Append(nextLog, createError(400))
                         /\ pc' = "done"
                         /\ UNCHANGED << showUp, fsOps >>
                    ELSE IF IsMalicious(p)
                    THEN /\ nextLog' = Append(nextLog, createError(403))
                         /\ pc' = "done"
                         /\ UNCHANGED << showUp, fsOps >>
                    ELSE /\ showUp' = (normalize(resolve(p) \o sep) # rootPath)
                         /\ fsOps' = [fsOps EXCEPT !.stat = @ + 1]
                         /\ pc' = "stat"
                         /\ UNCHANGED nextLog
                 /\ UNCHANGED res
    /\ UNCHANGED << configVars, batchVars, pathStat, listed, fsKind, files,
                    stats, fileList >>

\* the directory test that lets every existing path through
StatIsDirectoryAnyStat(outcome) == outcome \in { "dir", "file" }

\* stat.isDirectory() of the request path's stat
StatIsDirectory(outcome) == outcome = "dir"

\* the callback of filesystem.stat(path, ...)
StatCb(outcome) ==
    /\ pc = "stat"
    /\ pathStat' = outcome
    /\ IF outcome = "ENOENT"
       THEN /\ nextLog' = Append(nextLog, NoError)
            /\ pc' = "done"
            /\ UNCHANGED fsOps
       ELSE IF outcome \in { "ENAMETOOLONG", "EACCES" }
       THEN /\ nextLog' = Append(nextLog,
                   FsError(outcome, IF outcome = "ENAMETOOLONG" THEN 414 ELSE 500,
                           path))
            /\ pc' = "done"
            /\ UNCHANGED fsOps
       ELSE IF ~StatIsDirectory(outcome)
       THEN /\ nextLog' = Append(nextLog, NoError)
            /\ pc' = "done"
            /\ UNCHANGED fsOps
       ELSE /\ fsOps' = [fsOps EXCEPT !.readdir = @ + 1]
            /\ pc' = "readdir"
            /\ UNCHANGED nextLog
    /\ UNCHANGED << configVars, batchVars, path, showUp, listed, fsKind,
                    files, stats, fileList, res >>

(***************************************************************************)
(* statFiles: a Batch with concurrency 10.  Batch#end starts the first     *)
(* `concurrency` jobs; the callback of a job stores its result at the      *)
(* job's index and takes the next job from the queue, or, when no job is    *)
(* pending, hands the results to the callback of end; the first job that   *)
(* fails sets `done` and hands its error to the callback of end, and every *)
(* later callback returns at once.                                         *)
(***************************************************************************)
\* a Batch whose concurrency was never set starts every job at once
concurrencyUnset == MaxFiles + 2

\* batch.concurrency(10)
concurrency == 10

\* results.push(res): the results in completion order
StoreResultInCompletionOrder(arr, i, v) == Append(arr, v)

\* results[i] = res on a JavaScript array (i counted from 1): the array grows
\* to hold index i, the slots skipped stay undefined
StoreResult(arr, i, v) ==
    [k \in 1..Max(Len(arr), i) |->
        IF k = i THEN v ELSE IF k <= Len(arr) THEN arr[k] ELSE Undefined]

\* a statFiles that passes every failed stat on as a null stat
IsFatalNever(kind) == FALSE

\* err && err.code !== 'ENOENT': the entry's stat failed and statFiles fails
IsFatal(kind) == kind \notin { "dir", "file", "ENOENT" }

\* done(null, stat || null)
StatOrNull(name, kind) ==
    IF kind \in { "dir", "file" } THEN Stats(name, kind) ELSE NullStat

\* stats[i] of the html handler: undefined past the end of the array
StatAt(st, i) == IF i \in 1..Len(st) THEN st[i] ELSE Undefined

\* the callback html passes to statFiles, called with (null, st): the file
\* list is combined, sorted, and the stylesheet read
HtmlOnStats(fs, st) ==
    /\ stats' = st
    /\ fileList' = SortFileList([i \in 1..Len(fs) |->
                                    [name |-> fs[i], stat |-> StatAt(st, i)]])
    /\ fsOps' = [fsOps EXCEPT !.readFile = @ + 1]
    /\ pc' = "stylesheet"

\* ServeIndex.prototype.html up to the return of statFiles
Html(fs) ==
    /\ files' = fs
    /\ IF fs = << >>
       THEN \* Batch#end with no job calls back at once
            /\ HtmlOnStats(fs, << >>)
            /\ UNCHANGED << batchVars, nextLog, res >>
       ELSE /\ index' = Min(Len(fs), concurrency)
            /\ pending' = Len(fs)
            /\ results' = << >>
            /\ batchDone' = FALSE
            /\ inflight' = 1..Min(Len(fs), concurrency)
            /\ fsOps' = [fsOps EXCEPT !.entryStat = @ + Min(Len(fs), concurrency)]
            /\ pc' = "statFiles"
            /\ UNCHANGED << stats, fileList, nextLog, res >>

\* the callback of filesystem.readdir(path, ...): with an error, or with the
\* directory's entries; then the filters, the sort, the negotiation and the
\* handler of the negotiated type
ReaddirFails ==
    /\ pc = "readdir"
    /\ nextLog' = Append(nextLog, FsError("EIO", 0, path))
    /\ pc' = "done"
    /\ UNCHANGED << configVars, batchVars, path, showUp, pathStat, listed,
                    fsKind, files, stats, fileList, res, fsOps >>

ReaddirCb(listing, kinds) ==
    /\ pc = "readdir"
    /\ listed' = listing
    /\ fsKind' = kinds
    /\ LET shown    == IF ~hidden THEN removeHidden(listing) ELSE listing
           accepted == IF filter # "none" THEN ApplyFilter(filter, shown, path)
                       ELSE shown
           sorted   == SortFiles(accepted)
           type     == AcceptType(req.accept)
       IN  CASE type = "" ->
                  /\ nextLog' = Append(nextLog, createError(406))
                  /\ pc' = "done"
                  /\ UNCHANGED << batchVars, files, stats, fileList, res, fsOps >>
             [] type = "application/json" ->
                  /\ files' = sorted
                  /\ res' = send(res, "application/json", JsonStringify(sorted))
                  /\ pc' = "done"
                  /\ UNCHANGED << batchVars, stats, fileList, nextLog, fsOps >>
             [] type = "text/plain" ->
                  /\ files' = sorted
                  /\ res' = send(res, "text/plain", PlainBody(sorted))
                  /\ pc' = "done"
                  /\ UNCHANGED << batchVars, stats, fileList, nextLog, fsOps >>
             [] type = "text/html" ->
                  Html(IF showUp THEN << DotDot >> \o sorted ELSE sorted)
    /\ UNCHANGED << configVars, path, showUp, pathStat >>

\* the callback of the stat of entry i (filesystem.stat(join(dir, file), ...))
LookupCb(i) ==
    /\ i \in inflight
    /\ LET kind == fsKind[files[i]] IN
       IF batchDone
       THEN \* if (done) return
            /\ inflight' = inflight \ { i }
            /\ UNCHANGED << index, pending, results, batchDone, stats,
                            fileList, nextLog, fsOps, pc >>
       ELSE IF IsFatal(kind)
       THEN \* done(err): done = true, cb(err), and html calls next(err)
            /\ batchDone' = TRUE
            /\ inflight' = inflight \ { i }
            /\ nextLog' = Append(nextLog, FsError(kind, 0, files[i]))
            /\ pc' = "done"
            /\ UNCHANGED << index, pending, results, stats, fileList, fsOps >>
       ELSE /\ results' = StoreResult(results, i, StatOrNull(files[i], kind))
            /\ pending' = pending - 1
            /\ UNCHANGED << batchDone, nextLog >>
            /\ IF pending - 1 # 0
               THEN \* next(): the job at `index`, when there is one
                    /\ index' = index + 1
                    /\ IF index + 1 <= Len(files)
                       THEN /\ inflight' = (inflight \ { i }) \cup { index + 1 }
                            /\ fsOps' = [fsOps EXCEPT !.entryStat = @ + 1]
                       ELSE /\ inflight' = inflight \ { i }
                            /\ UNCHANGED fsOps
                    /\ UNCHANGED << stats, fileList, pc >>
               ELSE /\ inflight' = inflight \ { i }
                    /\ UNCHANGED index
                    /\ HtmlOnStats(files, results')
    /\ UNCHANGED << configVars, path, showUp, pathStat, listed, fsKind, files,
                    res >>

\* the callback of fs.readFile(stylesheet, ...): next(err), or render(locals,
\* ...), which reads the template
ReadStylesheetCb(ok) ==
    /\ pc = "stylesheet"
    /\ IF ok
       THEN /\ fsOps' = [fsOps EXCEPT !.readFile = @ + 1]
            /\ pc' = "template"
            /\ UNCHANGED nextLog
       ELSE /\ nextLog' = Append(nextLog, FsError("ENOENT", 0, << >>))
            /\ pc' = "done"
            /\ UNCHANGED fsOps
    /\ UNCHANGED << configVars, batchVars, path, showUp, pathStat, listed,
                    fsKind, files, stats, fileList, res >>

\* the callback of fs.readFile(template, ...) in createHtmlRender's render:
\* callback(err) and html calls next(err), or the body is built and sent
ReadTemplateCb(ok) ==
    /\ pc = "template"
    /\ IF ok
       THEN /\ res' = send(res, "text/html", createHtmlFileList(fileList))
            /\ UNCHANGED nextLog
       ELSE /\ nextLog' = Append(nextLog, FsError("ENOENT", 0, << >>))
            /\ UNCHANGED res
    /\ pc' = "done"
    /\ UNCHANGED << configVars, batchVars, path, showUp, pathStat, listed,
                    fsKind, files, stats, fileList, fsOps >>

Next ==
    \/ Serve
    \/ \E outcome \in PathStats : StatCb(outcome)
    \/ ReaddirFails
    \/ \E listing \in Listings(path) :
         \E kinds \in EntryKinds(path, listing) : ReaddirCb(listing, kinds)
    \/ \E i \in inflight : LookupCb(i)
    \/ \E ok \in BOOLEAN : ReadStylesheetCb(ok)
    \/ \E ok \in BOOLEAN : ReadTemplateCb(ok)

Spec == Init /\ [][Next]_vars


(***************************************************************************)
(* Notions the properties are stated with.                                 *)
(***************************************************************************)
IsGetOrHead == req.method \in { "GET", "HEAD" }

\* serve has run
Served == pc # "request"

\* the segments of the location a path names
SegmentsOf(p) == normalizeSegments(SplitOn(p, "/"), << >>)

IsPrefixSeq(a, b) == Len(a) <= Len(b) /\ SubSeq(b, 1, Len(a)) = a

\* the request path percent-decodes
Decodes == decodeURIComponent(req.url).ok

\* the request path, decoded, joined with the root and normalised
Resolved == normalize(root \o sep \o decodeURIComponent(req.url).str)

\* the resolved path is neither the root nor below it
OutsideRoot == ~IsPrefixSeq(SegmentsOf(root), SegmentsOf(Resolved))

\* a callback of the request is still to come
CallbackPending ==
    \/ pc \in { "stat", "readdir", "statFiles", "stylesheet", "template" }
    \/ inflight # {}

\* a listing was sent as the response
ListingSent == res.ended > 0 /\ res.ContentType # ""

\* the entry names of a JSON body (the modelled names need no escape)
JsonNames(body) ==
    IF Len(body) <= 2 THEN << >>
    ELSE LET parts == SplitOn(SubSeq(body, 2, Len(body) - 1), ",")
         IN  [i \in 1..Len(parts) |-> SubSeq(parts[i], 2, Len(parts[i]) - 1)]

\* the entry names of a plain body
PlainNames(body) ==
    IF Len(body) <= 1 THEN << >>
    ELSE SplitOn(SubSeq(body, 1, Len(body) - 1), "\n")

\* the entry names of the response, in the response's order
ResponseNames ==
    CASE res.ContentType = "application/json" -> JsonNames(res.body)
      [] res.ContentType = "text/plain"       -> PlainNames(res.body)
      [] OTHER -> [i \in 1..Len(fileList) |-> fileList[i].name]

IsDotfile(name) == name # << >> /\ name[1] = "."

\* a <= b without regard to case
CaseInsensitiveLeq(a, b) ==
    ~CodeUnitLess(toLocaleLowerCase(b), toLocaleLowerCase(a))

\* the entry is a directory, by what the filesystem says of it
IsDirName(name) == fsKind[name] = "dir"

\* Sorter's order on a list of names: ".." first, directories before the
\* rest, each group without regard to case
InSorterOrder(names) ==
    /\ \A i \in 1..Len(names) : names[i] = DotDot => i = 1
    /\ \A i, j \in 1..Len(names) :
         (i < j /\ names[i] # DotDot /\ names[j] # DotDot) =>
            /\ IsDirName(names[j]) => IsDirName(names[i])
            /\ (IsDirName(names[i]) <=> IsDirName(names[j]))
                  => CaseInsensitiveLeq(names[i], names[j])

\* statFiles called back with (null, stats)
StatFilesSucceeded == fsOps.readFile > 0

\* the per-entry stats issued, called back, and failed other than by ENOENT
Issued == 1..Min(index, Len(files))

FailedLookups ==
    { i \in Issued \ inflight : fsKind[files[i]] \notin { "dir", "file", "ENOENT" } }

(***************************************************************************)
(* C1 (as stated): every GET or HEAD request whose decoded, joined and     *)
(* normalised path lies outside the root ends with next(403), and reaches  *)
(* no stat, no readdir and no response.                                    *)
(***************************************************************************)
C1_OutsideRootIs403 ==
    (Served /\ IsGetOrHead /\ Decodes /\ OutsideRoot) =>
        /\ nextLog = << createError(403) >>
        /\ fsOps = NoOps
        /\ res = InitRes

(***************************************************************************)
(* C1 (amended): such a request ends with next(403), or with next(400)     *)
(* when the normalised path holds a NUL byte (that test comes first); in   *)
(* both cases no stat or readdir is issued and the response is untouched.  *)
(***************************************************************************)
C1_OutsideRootIs403Or400 ==
    (Served /\ IsGetOrHead /\ Decodes /\ OutsideRoot) =>
        /\ nextLog = << createError(IF "NUL" \in Range(Resolved) THEN 400 ELSE 403) >>
        /\ pc = "done"
        /\ fsOps = NoOps
        /\ res = InitRes

\* a path that climbs out of /w by ".." segments into the sibling /w2 got 403
C1_Witness ==
    /\ IsGetOrHead /\ Decodes /\ OutsideRoot
    /\ root = << "/", "w" >>
    /\ Resolved = << "/", "w", "2" >>
    /\ nextLog = << createError(403) >>

(***************************************************************************)
(* C2: at most 10 per-entry stats are issued and not yet called back, and  *)
(* a step that issues a stat beyond the tenth is the callback of an        *)
(* earlier one.                                                            *)
(***************************************************************************)
C2_AtMostTenInFlight ==
    /\ [](Cardinality(inflight) <= 10)
    /\ [][(fsOps'.entryStat > fsOps.entryStat /\ fsOps'.entryStat > 10)
            => (\E i \in inflight : i \notin inflight')]_vars

\* the eleventh stat was issued, and ten are in flight
C2_Witness == fsOps.entryStat > 10 /\ Cardinality(inflight) = 10

(***************************************************************************)
(* C3: when statFiles succeeds, its array has one slot per entry name and  *)
(* slot i holds the metadata of name i, null when its stat reported        *)
(* ENOENT, whatever the order the stats completed in.                      *)
(***************************************************************************)
C3_StatsArePositional ==
    StatFilesSucceeded =>
        /\ Len(stats) = Len(files)
        /\ \A i \in 1..Len(files) :
             stats[i] = IF fsKind[files[i]] = "ENOENT"
                        THEN NullStat
                        ELSE [isNull |-> FALSE,
                              isDir  |-> fsKind[files[i]] = "dir",
                              ino    |-> files[i]]

\* more entries than the batch runs at once, one of them gone
C3_Witness ==
    /\ StatFilesSucceeded
    /\ Len(files) > 10
    /\ \E i \in 1..Len(files) : stats[i] = NullStat

(***************************************************************************)
(* C4 (as stated): with hidden disabled no entry name of a response, in    *)
(* any representation, begins with ".".                                    *)
(***************************************************************************)
C4_NoDotNameWhenNotHidden ==
    (ListingSent /\ ~hidden) =>
        \A i \in 1..Len(ResponseNames) : ~IsDotfile(ResponseNames[i])

(***************************************************************************)
(* C4 (amended): with hidden disabled the only entry name of a response    *)
(* that begins with "." is the parent entry ".." the HTML handler adds     *)
(* below the root; with hidden enabled a dotfile of the directory is in    *)
(* the response exactly when there is no filter or the filter accepts it.  *)
(***************************************************************************)
C4_HiddenFiles ==
    ListingSent =>
        /\ ~hidden =>
             \A i \in 1..Len(ResponseNames) :
                IsDotfile(ResponseNames[i]) =>
                   /\ ResponseNames[i] = DotDot
                   /\ res.ContentType = "text/html"
                   /\ showUp
        /\ hidden =>
             \A i \in 1..Len(listed) :
                IsDotfile(listed[i]) =>
                   (listed[i] \in Range(ResponseNames)
                      <=> CASE filter = "none"      -> TRUE
                            [] filter = "noSecret"  -> listed[i] # << ".", "s" >>
                            [] filter = "skipFirst" -> i # 1)

\* an HTML listing of a directory that holds a dotfile, hidden disabled
C4_Witness ==
    /\ ListingSent /\ ~hidden
    /\ res.ContentType = "text/html"
    /\ << ".", "s" >> \in Range(listed)
    /\ DotDot \in Range(ResponseNames)

(***************************************************************************)
(* C5: the file list the HTML handler renders holds every entry, ".."      *)
(* first, then the directories, then the rest (null metadata included),    *)
(* each group in case-insensitive alphabetical order.                      *)
(***************************************************************************)
C5_FileListSorted ==
    StatFilesSucceeded =>
        /\ Len(fileList) = Len(files)
        /\ \A i \in 1..Len(files) :
             \E j \in 1..Len(fileList) :
                fileList[j] = [name |-> files[i], stat |-> stats[i]]
        /\ InSorterOrder([i \in 1..Len(fileList) |-> fileList[i].name])

\* "..", two directories, and an entry without metadata
C5_Witness ==
    /\ StatFilesSucceeded
    /\ Len(fileList) = 4
    /\ fileList[1].name = DotDot
    /\ IsDirectory(fileList[2].stat) /\ IsDirectory(fileList[3].stat)
    /\ fileList[4].stat = NullStat

(***************************************************************************)
(* C6 (as stated): a JSON response lists the entry names in Sorter's       *)
(* order, directories before the rest.                                     *)
(***************************************************************************)
C6_JsonInSorterOrder ==
    (ListingSent /\ res.ContentType = "application/json") =>
        InSorterOrder(JsonNames(res.body))

(***************************************************************************)
(* C6 (amended): a JSON response lists the entry names that passed the     *)
(* hidden and filter steps in ascending code-unit order (files.sort()),    *)
(* whatever the entries are and whatever order readdir gave them in.       *)
(***************************************************************************)
C6_JsonInCodeUnitOrder ==
    (ListingSent /\ res.ContentType = "application/json") =>
        LET names == JsonNames(res.body) IN
        /\ \A i \in 1..(Len(names) - 1) : CodeUnitLess(names[i], names[i + 1])
        /\ Range(names) \subseteq Range(listed)
        /\ \A i \in 1..Len(listed) :
             listed[i] \in Range(names) <=>
                /\ hidden \/ ~IsDotfile(listed[i])
                /\ filter = "noSecret" => listed[i] # << ".", "s" >>
                /\ filter = "skipFirst" =>
                     \E j \in 1..(i - 1) : hidden \/ ~IsDotfile(listed[j])

\* readdir gave a directory after a file; the JSON body has the file first
C6_Witness ==
    /\ ListingSent /\ res.ContentType = "application/json"
    /\ listed = << << "a" >>, << "B" >> >>
    /\ fsKind[<< "a" >>] = "dir" /\ fsKind[<< "B" >>] = "file"
    /\ JsonNames(res.body) = << << "B" >>, << "a" >> >>

(***************************************************************************)
(* C7: when the stat of the request path reports ENOENT or a non-directory *)
(* the middleware calls next() without an error, leaves the response        *)
(* untouched, and issues no readdir and no per-entry stat.                 *)
(***************************************************************************)
C7_MissingOrNotDirectoryDefers ==
    (IsGetOrHead /\ pathStat \in { "ENOENT", "file" }) =>
        /\ ~OutsideRoot
        /\ nextLog = << NoError >>
        /\ res = InitRes
        /\ fsOps.readdir = 0 /\ fsOps.entryStat = 0 /\ fsOps.readFile = 0
        /\ pc = "done"

\* the path is a file: control went on
C7_Witness ==
    /\ pathStat = "file"
    /\ nextLog = << NoError >>
    /\ res = InitRes

(***************************************************************************)
(* C8: once a per-entry stat has failed other than by ENOENT, next was     *)
(* called once with the error of a failed stat and no listing is sent,     *)
(* whatever the other stats report; a listing is sent by the HTML handler  *)
(* only when every stat returned metadata or ENOENT.                       *)
(***************************************************************************)
C8_NoPartialListing ==
    /\ FailedLookups # {} =>
          /\ Len(nextLog) = 1
          /\ nextLog[1].code = "EACCES"
          /\ \E i \in FailedLookups : nextLog[1].file = files[i]
          /\ res = InitRes
          /\ pc = "done"
    /\ (ListingSent /\ res.ContentType = "text/html") =>
          /\ Issued \ inflight = 1..Len(files)
          /\ \A i \in 1..Len(files) : fsKind[files[i]] \in { "dir", "file", "ENOENT" }

\* a stat failed while others were in flight; they have all come back since,
\* one of them with metadata that was dropped
C8_Witness ==
    /\ FailedLookups # {}
    /\ inflight = {}
    /\ Cardinality(Issued) > 2
    /\ \E i \in Issued \ FailedLookups :
          /\ fsKind[files[i]] \in { "dir", "file" }
          /\ i > Len(results) \/ results[i] = Undefined

(***************************************************************************)
(* C9: a request that is neither GET nor HEAD is ended at once, with 200   *)
(* for OPTIONS and 405 otherwise, Allow: GET, HEAD, OPTIONS and an empty   *)
(* body; next is not called, no path resolved, no filesystem call made.    *)
(***************************************************************************)
C9_OtherMethods ==
    (Served /\ ~IsGetOrHead) =>
        /\ res = [statusCode |-> IF req.method = "OPTIONS" THEN 200 ELSE 405,
                  Allow |-> "GET, HEAD, OPTIONS", ContentType |-> "",
                  ContentLength |-> 0, XContentTypeOptions |-> "",
                  body |-> << >>, ended |-> 1]
        /\ nextLog = << >>
        /\ path = << >>
        /\ fsOps = NoOps
        /\ pc = "done"

\* an OPTIONS request was answered 200
C9_Witness ==
    /\ Served /\ req.method = "OPTIONS"
    /\ res.statusCode = 200 /\ res.ended = 1

(***************************************************************************)
(* C10: once every callback issued for a served request has fired, the     *)
(* request has exactly one outcome, res.end or next, reached once; and at  *)
(* no time has it more than one.                                           *)
(***************************************************************************)
C10_ExactlyOneOutcome ==
    /\ res.ended + Len(nextLog) <= 1
    /\ (Served /\ ~CallbackPending) => res.ended + Len(nextLog) = 1

\* What holds of C10: never more than one outcome, and exactly one once no
\* callback is pending unless serve threw while decoding the path.
OneOutcomeUnlessThrown ==
    /\ res.ended + Len(nextLog) <= 1
    /\ (Served /\ ~CallbackPending /\ pc # "thrown") => res.ended + Len(nextLog) = 1
    /\ pc = "thrown" => (IsGetOrHead /\ ~Decodes /\ res = InitRes /\ nextLog = << >>)

=============================================================================
